---- MODULE Spec2Model ----
(***************************************************************************)
(* shellmando: one invocation of main() as a state machine.                *)
(*                                                                         *)
(* Texts (file contents, model replies, user answers, stdout lines) are    *)
(* sequences of one-character strings.  Temperatures are integer           *)
(* hundredths (0.1 is 10).  The filesystem is a function from paths to a   *)
(* text or Absent.                                                         *)
(***************************************************************************)
EXTENDS Integers, Sequences, FiniteSets, TLC

(***************************************************************************)
(* Bounds of the model.                                                    *)
(***************************************************************************)
MaxInvocations == 3      \* entries into main (1 + retries of the edit workflow)
MaxRetries == 2          \* largest --retries value explored
MaxStartupTimeout == 1   \* largest --startup-timeout explored, in poll ticks
MaxTextLen == 6          \* longest text given to strip_fences on its own
MaxSaves == 3            \* save_script calls made one after another

(***************************************************************************)
(* Program constants.                                                      *)
(***************************************************************************)
DEFAULT_TEMPERATURE == 10
ONELINER_LIMIT == 512
TEMP_THRESHOLD == 20
TEMP_STEP_LARGE == 10
TEMP_STEP_SMALL == 1

SHELL_MODES == {"bash", "sh", "zsh", "fish"}

NL == "\n"
SP == " "
BT == "bq"     \* stands for the backquote character

(***************************************************************************)
(* Text helpers: str.splitlines, str.strip, str.rstrip, str.startswith,    *)
(* str.join, as strip_fences uses them.                                    *)
(***************************************************************************)
IsSpace(c) == c \in {SP, NL}

RECURSIVE LStrip(_)
LStrip(t) ==
    IF t # <<>> /\ IsSpace(Head(t)) THEN LStrip(Tail(t)) ELSE t

RECURSIVE RStrip(_)
RStrip(t) ==
    IF t # <<>> /\ IsSpace(t[Len(t)])
    THEN RStrip(SubSeq(t, 1, Len(t) - 1))
    ELSE t

Strip(t) == LStrip(RStrip(t))

StartsWith(t, p) == Len(t) >= Len(p) /\ SubSeq(t, 1, Len(p)) = p

EndsWith(t, p) == Len(t) >= Len(p) /\ SubSeq(t, Len(t) - Len(p) + 1, Len(t)) = p

\* position of the first newline of t, 0 when it has none
FirstNL(t) ==
    IF \E i \in 1..Len(t) : t[i] = NL
    THEN CHOOSE i \in 1..Len(t) : t[i] = NL /\ \A j \in 1..(i - 1) : t[j] # NL
    ELSE 0

\* str.splitlines(): no empty last line after a final newline
RECURSIVE SplitLines(_)
SplitLines(t) ==
    IF t = <<>> THEN <<>>
    ELSE LET k == FirstNL(t)
         IN  IF k = 0 THEN <<t>>
             ELSE <<SubSeq(t, 1, k - 1)>> \o SplitLines(SubSeq(t, k + 1, Len(t)))

RECURSIVE JoinLines(_)
JoinLines(ls) ==
    IF ls = <<>> THEN <<>>
    ELSE IF Len(ls) = 1 THEN ls[1]
    ELSE ls[1] \o <<NL>> \o JoinLines(Tail(ls))

RECURSIVE DropFences_Untrimmed(_)
DropFences_Untrimmed(ls) ==
    IF ls = <<>> THEN <<>>
    ELSE IF StartsWith(Head(ls), <<BT, BT, BT>>)
         THEN DropFences_Untrimmed(Tail(ls))
         ELSE <<Head(ls)>> \o DropFences_Untrimmed(Tail(ls))

\* strip_fences: the lines whose stripped form does not start with a fence
RECURSIVE DropFences(_)
DropFences(ls) ==
    IF ls = <<>> THEN <<>>
    ELSE IF StartsWith(Strip(Head(ls)), <<BT, BT, BT>>)
         THEN DropFences(Tail(ls))
         ELSE <<Head(ls)>> \o DropFences(Tail(ls))

\* variant: the text is returned as it came
strip_fences_Unprocessed(text) == text

\* strip_fences: the remaining lines right-trimmed, joined, and the whole stripped
strip_fences(text) ==
    LET lines == DropFences(SplitLines(text))
        trimmed == [i \in 1..Len(lines) |-> RStrip(lines[i])]
    IN Strip(JoinLines(trimmed))

is_oneliner_Inclusive(text) ==
    (\A i \in 1..Len(text) : text[i] # NL) /\ Len(text) <= ONELINER_LIMIT

\* is_oneliner: "\n" not in text and len(text) < 512
is_oneliner(text) ==
    (\A i \in 1..Len(text) : text[i] # NL) /\ Len(text) < ONELINER_LIMIT


(***************************************************************************)
(* Command line.  An argument list is a sequence of tokens; argparse keeps *)
(* the last value given for an option.  None is the value main() gets      *)
(* from the command-line entry point.                                      *)
(***************************************************************************)
Tok(o) == [opt |-> o, num |-> 0, txt |-> <<>>]
TokNum(o, n) == [opt |-> o, num |-> n, txt |-> <<>>]
TokTxt(o, t) == [opt |-> o, num |-> 0, txt |-> t]

None == <<Tok("None")>>

NoPath == <<>>
TaskText == <<"t", "a", "s", "k">>
TargetPath == <<"f", ".py">>
PromptPath == <<"prompt">>

\* Path.with_suffix(suffix + ".bak")
BakOf(p) == Append(p, ".bak")

HasOpt(list, o) == \E i \in 1..Len(list) : list[i].opt = o

LastOpt(list, o) ==
    list[CHOOSE i \in 1..Len(list) :
            /\ list[i].opt = o
            /\ \A j \in (i + 1)..Len(list) : list[j].opt # o]

\* _pre_parse_config: argv if it is not None, else sys.argv[1:]
EffectiveArgs(av, sysav) == IF av # None THEN av ELSE sysav

\* build_parser(cfg).parse_args(argv)
ParseArgs(list) ==
    [task        |-> IF HasOpt(list, "task") THEN LastOpt(list, "task").txt ELSE <<>>,
     edit        |-> IF HasOpt(list, "-e") THEN LastOpt(list, "-e").txt ELSE NoPath,
     append      |-> IF HasOpt(list, "-a") THEN LastOpt(list, "-a").txt ELSE NoPath,
     raw         |-> HasOpt(list, "--raw"),
     justanswer  |-> HasOpt(list, "-j"),
     snippet     |-> HasOpt(list, "-s"),
     prompt_file |-> IF HasOpt(list, "--prompt-file")
                     THEN LastOpt(list, "--prompt-file").txt ELSE NoPath,
     mode        |-> IF HasOpt(list, "-m") THEN LastOpt(list, "-m").txt ELSE <<>>,
     system_prompt |-> IF HasOpt(list, "--system-prompt")
                       THEN LastOpt(list, "--system-prompt").txt ELSE <<>>,
     temperature |-> IF HasOpt(list, "-t") THEN LastOpt(list, "-t").num
                     ELSE DEFAULT_TEMPERATURE]

NoArgs == ParseArgs(<<>>)

\* variant: the exclusivity test is missing
MutuallyExclusive_Never(a) == FALSE

\* main: "if args.edit and args.append"
MutuallyExclusive(a) == a.edit # NoPath /\ a.append # NoPath

\* main: target_file = args.edit or args.append
TargetOf(a) == IF a.edit # NoPath THEN a.edit ELSE a.append

\* main: file_op
FileOpOf(a) ==
    IF a.edit # NoPath THEN "edit"
    ELSE IF a.append # NoPath THEN "append" ELSE "none"

\* variant: the suffix is compared as written
lower_AsWritten(ext) == ext

\* str.lower on the suffixes used
lower(ext) ==
    IF ext = ".PY" THEN ".py"
    ELSE IF ext = ".SH" THEN ".sh"
    ELSE ext

\* Path.suffix
SuffixOfPath(p) == IF p = <<>> THEN "" ELSE p[Len(p)]

\* _get_mapping / mode_from_extension: the mode of a recognised suffix, else <<>>
mode_from_extension(p) ==
    LET ext == lower(SuffixOfPath(p))
    IN  IF ext = ".py" THEN <<"python">>
        ELSE IF ext = ".sh" THEN <<"sh">>
        ELSE IF ext = ".zsh" THEN <<"zsh">>
        ELSE IF ext = ".fish" THEN <<"fish">>
        ELSE <<>>

\* extension_for_mode
extension_for_mode(m) ==
    IF m = <<"python">> THEN ".py"
    ELSE IF m \in {<<"bash">>, <<"sh">>} THEN ".sh"
    ELSE IF m = <<"zsh">> THEN ".zsh"
    ELSE IF m = <<"fish">> THEN ".fish"
    ELSE ".txt"

(***************************************************************************)
(* Filesystem: a function whose domain is the set of existing paths.       *)
(***************************************************************************)
Exists_Never(f, p) == FALSE

\* Path.exists
Exists(f, p) == p \in DOMAIN f

WriteFile_Appending(f, p, text) ==
    [q \in DOMAIN f \cup {p} |->
        IF q # p THEN f[q] ELSE IF p \in DOMAIN f THEN f[p] \o text ELSE text]

\* Path.write_text: create or truncate, then write
WriteFile(f, p, text) == [q \in DOMAIN f \cup {p} |-> IF q = p THEN text ELSE f[q]]

RemoveFile(f, p) == [q \in DOMAIN f \ {p} |-> f[q]]

\* Permission bits of a file, as the set of the bits that are on.
ExecBits == {"ux", "gx", "ox"}
Bits666 == {"ur", "uw", "gr", "gw", "or", "ow"}
Bits644 == {"ur", "uw", "gr", "or"}
Bits755 == {"ur", "uw", "ux", "gr", "gx", "or", "ox"}
Umask022 == {"gw", "ow"}
Umask077 == {"gr", "gw", "gx", "or", "ow", "ox"}

\* Path.write_text: a file it creates gets 0o666 less the umask, a file it
\* truncates keeps its bits
BitsAfterWrite(pm, p, umask) == IF p \in DOMAIN pm THEN pm[p] ELSE Bits666 \ umask

\* save_script, lines 486-487: candidate.chmod(candidate.stat().st_mode | 0o755)
BitsAfterChmod(bits, mode, make_executable) ==
    IF make_executable /\ mode[1] \in SHELL_MODES THEN bits \cup Bits755 ELSE bits


(***************************************************************************)
(* The edit/append workflow's file operations and the retry temperature.   *)
(***************************************************************************)
\* shutil.copy2(target_file, bak_file), guarded by target_file.exists()
BackupCopy(f, t) ==
    IF Exists(f, t) THEN WriteFile(f, BakOf(t), f[t]) ELSE f

\* target_file.write_text(cleaned + "\n")
EditWrite(f, t, text) == WriteFile(f, t, text \o <<NL>>)

\* variant: the original content is never given the newline it lacks
AppendWrite_NoSeparator(f, t, original, text) ==
    LET held == IF Exists(f, t) THEN f[t] ELSE <<>>
    IN  WriteFile(f, t, held \o <<NL>> \o text \o <<NL>>)

\* append_changes(): open("a") keeps what the file holds and adds to it
AppendWrite(f, t, original, text) ==
    LET held == IF Exists(f, t) THEN f[t] ELSE <<>>
        sep  == IF original # <<>> /\ ~EndsWith(original, <<NL>>) THEN <<NL>> ELSE <<>>
    IN  WriteFile(f, t, held \o sep \o <<NL>> \o text \o <<NL>>)

\* variant: the backup is copied back instead of moved
RestoreFromBackup_KeepsBackup(f, t) ==
    WriteFile(RemoveFile(f, t), t, f[BakOf(t)])

\* os.remove(target_file); shutil.move(bak_file, target_file)
RestoreFromBackup(f, t) ==
    LET removed == RemoveFile(f, t)
    IN  WriteFile(RemoveFile(removed, BakOf(t)), t, removed[BakOf(t)])

\* choice == "y" or choice == "Y" or choice == "J" or choice == ""
ConfirmAccepts(c) == c \in {<<"y">>, <<"Y">>, <<"J">>, <<>>}

\* variant: every answer to the retry offer counts as a yes
RetryAccepts_Always(c) == TRUE

\* choice == "y" or choice == "Y" or choice == "J"
RetryAccepts(c) == c \in {<<"y">>, <<"Y">>, <<"J">>}

\* variant: the large step is taken at every temperature
NewTemp_AlwaysLarge(t) == t - TEMP_STEP_LARGE

\* new_temp = args.temperature - 0.1 if args.temperature > 0.2 else args.temperature-0.01
NewTemp(t) ==
    IF t > TEMP_THRESHOLD THEN t - TEMP_STEP_LARGE ELSE t - TEMP_STEP_SMALL

(***************************************************************************)
(* Availability.                                                           *)
(***************************************************************************)
ProbeOutcomes == {"health", "root", "down"}

\* health_check: (running, llama_server) for what the two GETs met
health_check(h) ==
    IF h = "health" THEN <<TRUE, TRUE>>
    ELSE IF h = "root" THEN <<TRUE, FALSE>>
    ELSE <<FALSE, FALSE>>

\* Python truth value of a tuple: true when it is not empty
Truthy(tuple) == Len(tuple) > 0

\* variant: main goes on whatever ensure_llm_running reported
MainGivesUp_Never(isRunning) == FALSE

\* main: "if not running: return 1"
MainGivesUp(isRunning) == ~isRunning

(***************************************************************************)
(* Values the environment supplies.                                        *)
(***************************************************************************)
NoReply == <<"<None>">>
EndOfInput == <<"<EOF>">>

OneLineReply == <<"l", "s">>
FencedReply == <<BT, BT, BT, "s", "h", NL, "a", SP, NL, "b", NL, BT, BT, BT, NL>>
EmptyReply == <<>>
FencedOneLineReply == <<BT, BT, BT, NL, "l", "s", SP, NL, BT, BT, BT>>

\* a single line of n ordinary characters
Line(n) == [i \in 1..n |-> "x"]

\* replies just below and at the length that is_oneliner tests
LongestOneLineReply == Line(ONELINER_LIMIT - 1)
ShortestScriptReply == Line(ONELINER_LIMIT)

Replies ==
    { OneLineReply, FencedReply, EmptyReply, FencedOneLineReply,
      LongestOneLineReply, ShortestScriptReply }

\* The JSON document of an HTTP response, as far as the clients look into it:
\* "choices" is missing, an empty list or a list; "message" is missing, null or
\* a dict; "content" is missing, null (None) or a text.
Missing == <<"<missing>">>

Doc(c, m, t) == [choices |-> c, message |-> m, content |-> t]

NoDoc == Doc("none", "none", Missing)

LlamaDocs ==
    { Doc("missing", "missing", Missing), Doc("empty", "missing", Missing),
      Doc("list", "missing", Missing), Doc("list", "null", Missing) }
    \cup { Doc("list", "dict", t) : t \in Replies \cup {Missing, NoReply} }

OllamaDocs ==
    { Doc("missing", "missing", Missing), Doc("missing", "null", Missing) }
    \cup { Doc("missing", "dict", t) : t \in Replies \cup {Missing, NoReply} }

DocsFor(isLlama) == IF isLlama THEN LlamaDocs ELSE OllamaDocs

\* What urlopen, resp.read(), .decode() and json.loads can raise: URLError for
\* a refused connection or an HTTP error status, TimeoutError for a read that
\* times out, ConnectionResetError for a reset in the body, UnicodeDecodeError
\* and JSONDecodeError for a body that is not UTF-8 JSON.
TransportFailures ==
    { "URLError", "TimeoutError", "ConnectionResetError", "UnicodeDecodeError",
      "JSONDecodeError" }

ConfirmAnswers ==
    { <<>>, <<"y">>, <<"Y">>, <<"J">>, <<"j">>, <<"y", "e", "s">>,
      <<"Y", "E", "S">>, <<"n">>, <<SP, "y", SP>>, EndOfInput }

RetryAnswers == { <<>>, <<"y">>, <<"n">>, EndOfInput }

ContentA == <<"A">>
ContentOld == <<"o", "l", "d", NL>>
StaleBackup == <<"s", "t", "a", "l", "e", NL>>

TemperatureChoices == {0, 1, 15, 20, 21, 50}

ConfirmBanner == <<NL, "Do you want to apply the changes">>

\* input(prompt) writes the prompt to sys.stdout before it reads
ConfirmPrompt == <<"Enter your choice (y/n) - default y: ">>
RetryPrompt == <<"retry (y/n) - default n: ">>


(***************************************************************************)
(* State.                                                                  *)
(***************************************************************************)
VARIABLES
    argv,          \* main's parameter: an argument list or None
    sysArgv,       \* sys.argv[1:] of the process
    cfg,           \* settings resolved from config/environment defaults
    fs,            \* the filesystem
    pc,            \* position in main
    args,          \* the parsed argument namespace
    file_content,  \* main's file_content
    running,       \* ensure_llm_running's first result
    llama_server,  \* ensure_llm_running's second result
    elapsed,       \* poll ticks since the deadline was computed
    system_prompt, \* main's system_prompt, as a sequence of clauses
    user_prompt,   \* main's user_prompt
    attempt,       \* the query loop's attempt counter
    raw_content,   \* the backend's reply
    cleaned,       \* strip_fences(raw_content)
    choice,        \* the last answer read by input(), stripped
    decision,      \* outcome of the Confirm step of this invocation
    stdout,        \* what was printed to stdout, in order
    exitCode,      \* main's return value, -1 while it has not returned
    raised,        \* the exception that left main, "none" if none did
    probes,        \* health probes made by this invocation
    pollOk,        \* some probe of the poll loop succeeded
    spawned,       \* the bootstrap command was launched
    sent,          \* chat requests sent: [inv, temperature, route, system, user]
    reads,         \* files read by this invocation
    invocations,   \* entries into main so far
    retryYes,      \* affirmative answers to the retry offer so far
    atEntry,       \* filesystem and stdout when this invocation entered main
    lastProbe,     \* outcome of the latest health probe of this invocation
    tried,         \* outcome of each turn of the query loop, in order
    sleeps,        \* time.sleep(retry_delay) calls of the query loop
    response,      \* the JSON document of the latest HTTP response
    produced,      \* the outputs main delivered, in order
    perm,          \* permission bits of the files save_script wrote
    saver          \* frames of save_script calls made on their own

vars == << argv, sysArgv, cfg, fs, pc, args, file_content, running, llama_server,
           elapsed, system_prompt, user_prompt, attempt, raw_content, cleaned, choice, decision, stdout,
           exitCode, raised, probes, pollOk, spawned, sent, reads, invocations,
           retryYes, atEntry, lastProbe, tried, sleeps, response, produced,
           perm, saver >>

(***************************************************************************)
(* Initial states: the inputs explored.  Six families, each varying some   *)
(* inputs with the others at a base value.                                 *)
(***************************************************************************)
FileOps == {"none", "edit", "append", "both"}

ArgList(fileop, raw, just, snip, pf, temp) ==
    <<TokTxt("task", TaskText)>>
    \o (IF fileop \in {"edit", "both"} THEN <<TokTxt("-e", TargetPath)>> ELSE <<>>)
    \o (IF fileop \in {"append", "both"} THEN <<TokTxt("-a", TargetPath)>> ELSE <<>>)
    \o (IF raw THEN <<Tok("--raw")>> ELSE <<>>)
    \o (IF just THEN <<Tok("-j")>> ELSE <<>>)
    \o (IF snip THEN <<Tok("-s")>> ELSE <<>>)
    \o (IF pf THEN <<TokTxt("--prompt-file", PromptPath)>> ELSE <<>>)
    \o (IF temp >= 0 THEN <<TokNum("-t", temp)>> ELSE <<>>)

\* starter: a bootstrap command is configured.  under_dir: the output directory
\* lies under SHELLMANDO_DIR.  cwd_is_dir: the working directory is
\* SHELLMANDO_DIR.  bat: bat or batcat is on the PATH.  umask: the process umask.
BaseCfg ==
    [starter |-> FALSE, startup_timeout |-> MaxStartupTimeout, retries |-> MaxRetries,
     under_dir |-> FALSE, cwd_is_dir |-> FALSE, bat |-> FALSE, umask |-> Umask022]

Cfgs ==
    { [BaseCfg EXCEPT !.starter = s, !.startup_timeout = t, !.retries = r] :
        s \in BOOLEAN, t \in 0..MaxStartupTimeout, r \in 0..MaxRetries }

Envs ==
    { [BaseCfg EXCEPT !.under_dir = u, !.cwd_is_dir = c, !.bat = b] :
        u \in BOOLEAN, c \in BOOLEAN, b \in BOOLEAN }

InitialFs(targetExists, staleBak) ==
    LET base == [q \in {PromptPath} |-> ContentOld]
        withT == IF targetExists THEN WriteFile(base, TargetPath, ContentA) ELSE base
    IN  IF staleBak THEN WriteFile(withT, BakOf(TargetPath), StaleBackup) ELSE withT

\* every combination of flags, base settings
FlagInputs ==
    { [list |-> ArgList(fo, r, j, s, p, -1), cfg |-> BaseCfg, fs |-> InitialFs(te, FALSE)] :
        fo \in FileOps, r \in BOOLEAN, j \in BOOLEAN, s \in BOOLEAN, p \in BOOLEAN,
        te \in BOOLEAN }

\* the edit/append workflow over temperatures and filesystem states
EditInputs ==
    { [list |-> ArgList(fo, FALSE, FALSE, FALSE, FALSE, t), cfg |-> BaseCfg,
       fs |-> InitialFs(te, sb)] :
        fo \in {"edit", "append"}, t \in TemperatureChoices \cup {-1},
        te \in BOOLEAN, sb \in BOOLEAN }

\* availability and retry settings
SettingInputs ==
    { [list |-> ArgList(fo, FALSE, FALSE, FALSE, FALSE, -1), cfg |-> c,
       fs |-> InitialFs(TRUE, FALSE)] :
        fo \in {"none", "edit"}, c \in Cfgs }

\* the script and one-liner outcomes over modes and places
ScriptInputs ==
    { [list |-> ArgList("none", FALSE, FALSE, FALSE, p, -1)
                \o (IF py THEN <<TokTxt("-m", <<"python">>)>> ELSE <<>>),
       cfg |-> c, fs |-> InitialFs(FALSE, FALSE)] :
        p \in BOOLEAN, py \in BOOLEAN, c \in Envs }

\* an edit or append of a target that is empty or ends with a newline
ContentInputs ==
    { [list |-> ArgList(fo, FALSE, FALSE, FALSE, FALSE, -1), cfg |-> BaseCfg,
       fs |-> WriteFile(InitialFs(FALSE, FALSE), TargetPath, c)] :
        fo \in {"edit", "append"}, c \in {<<>>, ContentOld} }

TargetPaths ==
    { <<"f", ".py">>, <<"F", ".PY">>, <<"f", ".sh">>, <<"f", ".zsh">>,
      <<"f", ".fish">>, <<"f", ".txt">> }

ModeFlags == { <<>>, <<"python">>, <<"zsh">>, <<"none">> }

CustomPrompt == <<"custom-system-prompt">>

ModeArgList(fo, path, m, just, sp) ==
    <<TokTxt("task", TaskText)>>
    \o (IF fo = "edit" THEN <<TokTxt("-e", path)>> ELSE <<TokTxt("-a", path)>>)
    \o (IF m # <<>> THEN <<TokTxt("-m", m)>> ELSE <<>>)
    \o (IF just THEN <<Tok("-j")>> ELSE <<Tok("--raw")>>)
    \o (IF sp THEN <<TokTxt("--system-prompt", CustomPrompt)>> ELSE <<>>)

\* the prompts over targets, mode flags and --system-prompt, in the two kinds of
\* invocation that end once the reply is printed
ModeInputs ==
    { [list |-> ModeArgList(fo, path, m, j, sp), cfg |-> BaseCfg,
       fs |-> WriteFile(InitialFs(FALSE, FALSE), path, ContentA)] :
        fo \in {"edit", "append"}, path \in TargetPaths, m \in ModeFlags,
        j \in BOOLEAN, sp \in BOOLEAN }

Inputs ==
    FlagInputs \cup EditInputs \cup SettingInputs \cup ScriptInputs
        \cup ContentInputs \cup ModeInputs

Init ==
    /\ \E inp \in Inputs, cli \in BOOLEAN :
          /\ argv = IF cli THEN None ELSE inp.list
          /\ sysArgv = IF cli THEN inp.list ELSE <<>>
          /\ cfg = inp.cfg
          /\ fs = inp.fs
          /\ atEntry = [fs |-> inp.fs, stdout |-> <<>>]
    /\ pc = "entry"
    /\ args = NoArgs
    /\ file_content = <<>>
    /\ running = FALSE
    /\ llama_server = FALSE
    /\ elapsed = 0
    /\ system_prompt = <<>>
    /\ user_prompt = <<>>
    /\ attempt = 0
    /\ raw_content = NoReply
    /\ cleaned = <<>>
    /\ choice = <<>>
    /\ decision = "none"
    /\ stdout = <<>>
    /\ exitCode = -1
    /\ raised = "none"
    /\ probes = 0
    /\ pollOk = FALSE
    /\ spawned = FALSE
    /\ sent = {}
    /\ reads = {}
    /\ invocations = 1
    /\ retryYes = 0
    /\ lastProbe = "none"
    /\ tried = <<>>
    /\ sleeps = 0
    /\ response = NoDoc
    /\ produced = <<>>
    /\ perm = <<>>
    /\ saver = <<>>


(***************************************************************************)
(* main, step by step.                                                     *)
(***************************************************************************)
ReturnCode_NoResponseIsSuccess(site) ==
    IF site \in {"conflict", "unavailable"} THEN 1
    ELSE IF site = "script" THEN 2
    ELSE 0

\* variant: the snippet branch falls through to the script's return value
ReturnCode_SnippetIsScript(site) ==
    IF site \in {"conflict", "unavailable", "no-response"} THEN 1
    ELSE IF site \in {"script", "snippet"} THEN 2
    ELSE 0

\* main: the value of each "return": 1 after an error message, 2 after a
\* script was saved, 0 otherwise
ReturnCode(site) ==
    IF site \in {"conflict", "unavailable", "no-response"} THEN 1
    ELSE IF site = "script" THEN 2
    ELSE 0

\* main: lines 727-760.  Parse, refuse --edit with --append, read the target.
ParseAndRead ==
    /\ pc = "entry"
    /\ LET a == ParseArgs(EffectiveArgs(argv, sysArgv))
           target == TargetOf(a)
           detected == mode_from_extension(target)
           mode == IF target # NoPath /\ detected # <<>> THEN detected
                   ELSE IF a.mode = <<>> THEN <<"bash">> ELSE a.mode
       IN  IF MutuallyExclusive(a)
           THEN /\ args' = a
                /\ pc' = "done"
                /\ exitCode' = ReturnCode("conflict")
                /\ UNCHANGED <<file_content, reads>>
           ELSE /\ args' = [a EXCEPT !.mode = mode]
                /\ file_content' = IF target # NoPath /\ Exists(fs, target)
                                   THEN fs[target] ELSE <<>>
                /\ reads' = IF target # NoPath /\ Exists(fs, target)
                            THEN reads \cup {target} ELSE reads
                /\ pc' = "ensure"
                /\ UNCHANGED exitCode
    /\ UNCHANGED << saver, perm, argv, sysArgv, cfg, fs, running, llama_server, elapsed,
                    system_prompt, user_prompt, attempt,
                    raw_content, cleaned, choice, decision, stdout, raised, probes,
                    pollOk, spawned, sent, invocations, retryYes, atEntry,
                    lastProbe, tried, sleeps, response, produced >>

\* ensure_llm_running: lines 243-249, and main's "if not running: return 1".
FirstProbe ==
    /\ pc = "ensure"
    /\ \E h \in ProbeOutcomes :
          LET r == health_check(h)
          IN  /\ probes' = probes + 1
              /\ lastProbe' = h
              /\ llama_server' = r[2]
              /\ IF r[1]
                 THEN /\ running' = TRUE
                      /\ pc' = IF MainGivesUp(TRUE) THEN "done" ELSE "prompts"
                      /\ exitCode' = IF MainGivesUp(TRUE) THEN ReturnCode("unavailable") ELSE exitCode
                 ELSE IF ~cfg.starter
                      THEN /\ running' = FALSE
                           /\ pc' = IF MainGivesUp(FALSE) THEN "done" ELSE "prompts"
                           /\ exitCode' = IF MainGivesUp(FALSE) THEN ReturnCode("unavailable") ELSE exitCode
                      ELSE /\ running' = FALSE
                           /\ pc' = "bootstrap"
                           /\ UNCHANGED exitCode
    /\ UNCHANGED << saver, perm, argv, sysArgv, cfg, fs, args, file_content, elapsed,
                    system_prompt, user_prompt, attempt, raw_content, cleaned, choice, decision, stdout, raised, pollOk,
                    spawned, sent, reads, invocations, retryYes, atEntry,
                    tried, sleeps, response, produced >>

\* ensure_llm_running: lines 251-257.  Popen, sleep(5), compute the deadline.
Bootstrap ==
    /\ pc = "bootstrap"
    /\ spawned' = TRUE
    /\ elapsed' = 0
    /\ pc' = "poll"
    /\ UNCHANGED << saver, perm, argv, sysArgv, cfg, fs, args, file_content, running, llama_server,
                    system_prompt, user_prompt, attempt, raw_content, cleaned, choice, decision, stdout, exitCode,
                    raised, probes, pollOk, sent, reads, invocations, retryYes, atEntry,
                    lastProbe, tried, sleeps, response, produced >>

\* ensure_llm_running: lines 258-265.  One turn of the poll loop, or its end.
Poll ==
    /\ pc = "poll"
    /\ IF elapsed < cfg.startup_timeout
       THEN \E h \in ProbeOutcomes :
               LET r == health_check(h)
               IN  /\ probes' = probes + 1
                   /\ lastProbe' = h
                   /\ pollOk' = (pollOk \/ r[1])
                   /\ IF Truthy(r)
                      THEN /\ running' = TRUE
                           /\ pc' = IF MainGivesUp(TRUE) THEN "done" ELSE "prompts"
                           /\ exitCode' = IF MainGivesUp(TRUE) THEN ReturnCode("unavailable") ELSE exitCode
                           /\ UNCHANGED <<elapsed, llama_server>>
                      ELSE /\ elapsed' = elapsed + 1
                           /\ UNCHANGED <<running, llama_server, pc, exitCode>>
       ELSE /\ running' = FALSE
            /\ llama_server' = FALSE
            /\ pc' = IF MainGivesUp(FALSE) THEN "done" ELSE "prompts"
            /\ exitCode' = IF MainGivesUp(FALSE) THEN ReturnCode("unavailable") ELSE exitCode
            /\ UNCHANGED <<probes, pollOk, elapsed, lastProbe>>
    /\ UNCHANGED << saver, perm, argv, sysArgv, cfg, fs, args, file_content, system_prompt,
                    user_prompt, attempt, raw_content, cleaned, choice, decision, stdout, raised, spawned, sent, reads,
                    invocations, retryYes, atEntry,
                    tried, sleeps, response, produced >>


\* build_system_prompt, as the sequence of clauses it joins
build_system_prompt(mode, snippet, file_output) ==
    IF mode[1] \in SHELL_MODES
    THEN <<"expert:" , mode[1], "reply-only-commands">>
    ELSE IF mode = <<"python">>
         THEN <<"reply-only-python">>
              \o (IF snippet THEN <<>> ELSE <<"dont-repeat-yourself">>)
              \o (IF snippet THEN <<"simple-snippet">> ELSE <<>>)
              \o (IF ~snippet /\ ~file_output THEN <<"one-function-and-main-guard">> ELSE <<>>)
         ELSE <<"helpful-assistant">>

\* main: lines 771-776
SystemPromptOf(a) ==
    (IF a.system_prompt # <<>>
     THEN a.system_prompt
     ELSE IF a.justanswer
     THEN <<"helpful-assistant-short-best-option">>
     ELSE build_system_prompt(a.mode, a.snippet, a.edit # NoPath \/ a.append # NoPath))
    \o <<"on-conflict-user-overrides">>

\* main: lines 778-784
UserPromptOf(a, content) ==
    LET fcontent == <<NL, BT, BT, BT>> \o a.mode \o <<NL>> \o content \o <<BT, BT, BT, NL>>
    IN  IF (a.edit # NoPath \/ a.append # NoPath) /\ Len(content) > 0
        THEN IF a.edit # NoPath
             THEN a.task \o <<". Edit the code in-place: ">> \o fcontent
             ELSE a.task \o <<". Current code is: ">> \o fcontent
                         \o <<". Give me ONLY your additions! ">>
        ELSE a.task

\* main: lines 767-787
BuildPrompts ==
    /\ pc = "prompts"
    /\ system_prompt' = SystemPromptOf(args)
    /\ user_prompt' = UserPromptOf(args, file_content)
    /\ attempt' = 1
    /\ pc' = "query"
    /\ UNCHANGED << saver, perm, argv, sysArgv, cfg, fs, args, file_content, running, llama_server,
                    elapsed, raw_content, cleaned, choice, decision, stdout, exitCode,
                    raised, probes, pollOk, spawned, sent, reads, invocations,
                    retryYes, atEntry,
                    lastProbe, tried, sleeps, response, produced >>

\* main: lines 790-793, the route of the client chosen
RouteOf(isLlama) == IF isLlama THEN "/v1/chat/completions" ELSE "/api/chat"

Request ==
    [inv |-> invocations, temperature |-> args.temperature,
     route |-> RouteOf(llama_server), system |-> system_prompt, user |-> user_prompt]

IndexError == <<"IndexError">>
AttributeError == <<"AttributeError">>
ExtractErrors == {IndexError, AttributeError}

\* query_llm_llama_server, line 371:
\*   data.get("choices", [{}])[0].get("message", {}).get("content")
ContentOfLlama(d) ==
    IF d.choices = "empty" THEN IndexError
    ELSE IF d.choices = "missing" THEN NoReply
    ELSE IF d.message = "null" THEN AttributeError
    ELSE IF d.message = "missing" \/ d.content = Missing THEN NoReply
    ELSE d.content

\* query_llm_ollama, line 325: data.get("message", {}).get("content")
ContentOfOllama(d) ==
    IF d.message = "null" THEN AttributeError
    ELSE IF d.message = "missing" \/ d.content = Missing THEN NoReply
    ELSE d.content

ContentOf(isLlama, d) == IF isLlama THEN ContentOfLlama(d) ELSE ContentOfOllama(d)

\* query_llm_*: "except urllib.error.URLError as exc"
Caught(failure) == failure = "URLError"

SleepsAfterFailure_Always(n, retries) == TRUE

\* query_llm_*: "if attempt < retries: time.sleep(retry_delay)"
SleepsAfterFailure(n, retries) == n < retries

\* query_llm_*: one turn of "for attempt in range(1, retries + 1)"
QueryAttempt ==
    /\ pc = "query"
    /\ attempt <= cfg.retries
    /\ sent' = sent \cup {Request}
    /\ \/ \* the request or the reading of its response fails
          \E failure \in TransportFailures :
             /\ tried' = Append(tried, failure)
             /\ IF Caught(failure)
                THEN /\ attempt' = attempt + 1
                     /\ sleeps' = IF SleepsAfterFailure(attempt, cfg.retries)
                                  THEN sleeps + 1 ELSE sleeps
                     /\ UNCHANGED <<pc, raised>>
                ELSE /\ raised' = failure
                     /\ pc' = "done"
                     /\ UNCHANGED <<attempt, sleeps>>
             /\ UNCHANGED <<raw_content, response>>
       \/ \* a response arrives and parses: return its content
          \E d \in DocsFor(llama_server) :
             LET content == ContentOf(llama_server, d)
             IN  /\ tried' = Append(tried, "response")
                 /\ response' = d
                 /\ IF content \in ExtractErrors
                    THEN /\ raised' = content[1]
                         /\ pc' = "done"
                         /\ UNCHANGED raw_content
                    ELSE /\ raw_content' = content
                         /\ pc' = "respond"
                         /\ UNCHANGED raised
                 /\ UNCHANGED <<attempt, sleeps>>
    /\ UNCHANGED << saver, perm, argv, sysArgv, cfg, fs, args, file_content, running, llama_server,
                    elapsed, system_prompt, user_prompt, cleaned, choice, decision,
                    stdout, exitCode, probes, pollOk, spawned, reads,
                    invocations, retryYes, atEntry, lastProbe, produced >>

\* query_llm_*: the loop is over, "all retries exhausted", return None
QueryExhausted ==
    /\ pc = "query"
    /\ attempt > cfg.retries
    /\ raw_content' = NoReply
    /\ pc' = "respond"
    /\ UNCHANGED << saver, perm, argv, sysArgv, cfg, fs, args, file_content, running, llama_server,
                    elapsed, system_prompt, user_prompt, attempt, cleaned, choice,
                    decision, stdout, exitCode, raised, probes, pollOk, spawned, sent,
                    reads, invocations, retryYes, atEntry,
                    lastProbe, tried, sleeps, response, produced >>


(***************************************************************************)
(* Script Materializer.                                                    *)
(***************************************************************************)
SyntaxError == <<"<SyntaxError>">>

\* args.output, the directory under which scripts are saved
OutputDir == "out/"

\* what ast.parse and ast.walk give for a text: SyntaxError, or the names of
\* the function and class definitions in walk order; or RecursionError, which
\* ast.parse raises on deeply nested or very long expressions
RecursionError == <<"<RecursionError>">>

ParseResults ==
    { SyntaxError, RecursionError, <<>>, <<"main">>, <<"helper", "main">>,
      <<"first", "last">> }

RECURSIVE WithoutMain(_)
WithoutMain(names) ==
    IF names = <<>> THEN <<>>
    ELSE IF Head(names) = "main" THEN WithoutMain(Tail(names))
    ELSE <<Head(names)>> \o WithoutMain(Tail(names))

\* find_label, given the parse result and the clock's HHMMSS label; only
\* SyntaxError is caught, any other exception of ast.parse leaves find_label
find_label(initial_label, parsed, stamp) ==
    LET filtered == IF parsed = SyntaxError THEN <<>> ELSE WithoutMain(parsed)
    IN  IF parsed = RecursionError THEN RecursionError[1]
        ELSE IF Len(filtered) > 0 THEN filtered[Len(filtered)]
        ELSE IF initial_label = "script" THEN stamp ELSE initial_label

\* the call of find_label ended in an exception
LabelRaised(label) == label = RecursionError[1]

\* save_script: suffix = f"_{idx}" if idx else ""
SuffixOf(idx) == IF idx = 0 THEN "" ELSE "_" \o ToString(idx)

\* save_script: folder / f"{label}{suffix}{ext}"
Candidate(label, idx, ext) == <<OutputDir, "today/", label, SuffixOf(idx), ext>>

\* save_script: the "while True" search for a non-colliding filename
RECURSIVE FreeIdx(_, _, _, _)
FreeIdx(f, label, ext, idx) ==
    IF ~Exists(f, Candidate(label, idx, ext)) THEN idx
    ELSE FreeIdx(f, label, ext, idx + 1)

\* save_script: the path written
save_script_path(f, mode, label) ==
    Candidate(label, FreeIdx(f, label, extension_for_mode(mode), 0), extension_for_mode(mode))

\* main: lines 806-822 and 857-877.  The outcomes that need no file workflow.
Respond ==
    /\ pc = "respond"
    /\ IF raw_content = NoReply
       THEN /\ pc' = "done" /\ exitCode' = ReturnCode("no-response")
            /\ UNCHANGED <<stdout, cleaned, fs, produced>>
       ELSE IF args.raw
       THEN /\ stdout' = Append(stdout, raw_content)
            /\ produced' = Append(produced, "raw")
            /\ pc' = "done" /\ exitCode' = ReturnCode("raw")
            /\ UNCHANGED <<cleaned, fs>>
       ELSE IF args.justanswer
       THEN /\ stdout' = Append(stdout, strip_fences(raw_content))
            /\ produced' = Append(produced, "answer")
            /\ pc' = "done" /\ exitCode' = ReturnCode("answer")
            /\ UNCHANGED <<cleaned, fs>>
       ELSE /\ cleaned' = strip_fences(raw_content)
            /\ IF FileOpOf(args) # "none"
               THEN /\ pc' = "backup"
                    /\ UNCHANGED <<stdout, exitCode, fs, produced>>
               ELSE IF args.snippet
               THEN \* the snippet goes to stderr between two rules
                    /\ produced' = Append(produced, "snippet")
                    /\ pc' = "done" /\ exitCode' = ReturnCode("snippet")
                    /\ UNCHANGED <<stdout, fs>>
               ELSE IF is_oneliner(cleaned')
               THEN /\ fs' = IF args.prompt_file # NoPath
                             THEN WriteFile(fs, args.prompt_file, cleaned') ELSE fs
                    /\ stdout' = Append(stdout, cleaned')
                    /\ produced' = Append(produced, "oneliner")
                    /\ pc' = "done" /\ exitCode' = ReturnCode("oneliner")
               ELSE /\ pc' = "save"
                    /\ UNCHANGED <<stdout, exitCode, fs, produced>>
    /\ UNCHANGED << saver, perm, argv, sysArgv, cfg, args, file_content, running, llama_server,
                    elapsed, system_prompt, user_prompt, attempt, raw_content, choice,
                    decision, raised, probes, pollOk, spawned, sent, reads,
                    invocations, retryYes, atEntry,
                    lastProbe, tried, sleeps, response >>

\* main: lines 886-890.  p.relative_to(SHELLMANDO_DIR), kept when it raises
RelativeTo(p, under) == IF under THEN Tail(p) ELSE p

\* display_code: bat prints the file (check=False); without bat the file is
\* read through the path given, which resolves when the path is absolute or
\* the working directory is SHELLMANDO_DIR
Displayable(p, full, c) == c.bat \/ p = full \/ c.cwd_is_dir

\* main: lines 879-899, with save_script and display_code
SaveScript ==
    /\ pc = "save"
    /\ \E parsed \in ParseResults :
          LET label == find_label("script", parsed, "script_HHMMSS")
              full == save_script_path(fs, args.mode, label)
              p == RelativeTo(full, cfg.under_dir)
              exec_cmd == IF args.mode = <<"python">> THEN <<"python3 ">> \o p ELSE p
              bits == BitsAfterChmod(BitsAfterWrite(perm, full, cfg.umask),
                                     args.mode, TRUE)
          IN  IF LabelRaised(label)
              THEN \* ast.parse raised something other than SyntaxError
                   /\ raised' = "RecursionError"
                   /\ UNCHANGED <<fs, perm, stdout, exitCode, produced>>
              ELSE IF ~Displayable(p, full, cfg)
              THEN \* path.read_text() on a path that does not resolve
                   /\ fs' = WriteFile(fs, full, cleaned)
                   /\ perm' = WriteFile(perm, full, bits)
                   /\ raised' = "FileNotFoundError"
                   /\ UNCHANGED <<stdout, exitCode, produced>>
              ELSE /\ perm' = WriteFile(perm, full, bits)
                   /\ fs' = IF args.prompt_file # NoPath
                            THEN WriteFile(WriteFile(fs, full, cleaned),
                                           args.prompt_file, exec_cmd)
                            ELSE WriteFile(fs, full, cleaned)
                   /\ stdout' = IF args.prompt_file # NoPath THEN stdout
                                ELSE Append(stdout, p)
                   /\ produced' = Append(produced, "script")
                   /\ exitCode' = ReturnCode("script")
                   /\ UNCHANGED raised
    /\ pc' = "done"
    /\ UNCHANGED << saver, argv, sysArgv, cfg, args, file_content, running, llama_server,
                    elapsed, system_prompt, user_prompt, attempt, raw_content, cleaned,
                    choice, decision, probes, pollOk, spawned, sent, reads,
                    invocations, retryYes, atEntry,
                    lastProbe, tried, sleeps, response >>


(***************************************************************************)
(* Edit/append workflow.                                                   *)
(***************************************************************************)
\* main: lines 823-825
Backup ==
    /\ pc = "backup"
    /\ fs' = BackupCopy(fs, TargetOf(args))
    /\ pc' = "mutate"
    /\ UNCHANGED << saver, perm, argv, sysArgv, cfg, args, file_content, running, llama_server,
                    elapsed, system_prompt, user_prompt, attempt, raw_content, cleaned,
                    choice, decision, stdout, exitCode, raised, probes, pollOk,
                    spawned, sent, reads, invocations, retryYes, atEntry,
                    lastProbe, tried, sleeps, response, produced >>

\* main: lines 826-836
Mutate ==
    /\ pc = "mutate"
    /\ fs' = IF FileOpOf(args) = "edit"
             THEN EditWrite(fs, TargetOf(args), cleaned)
             ELSE AppendWrite(fs, TargetOf(args), file_content, cleaned)
    /\ pc' = "review"
    /\ UNCHANGED << saver, perm, argv, sysArgv, cfg, args, file_content, running, llama_server,
                    elapsed, system_prompt, user_prompt, attempt, raw_content, cleaned,
                    choice, decision, stdout, exitCode, raised, probes, pollOk,
                    spawned, sent, reads, invocations, retryYes, atEntry,
                    lastProbe, tried, sleeps, response, produced >>

\* main: line 837, display_diff: old.read_text() raises when the backup is missing
Review ==
    /\ pc = "review"
    /\ IF Exists(fs, BakOf(TargetOf(args)))
       THEN /\ reads' = reads \cup {BakOf(TargetOf(args)), TargetOf(args)}
            /\ pc' = "confirm"
            /\ UNCHANGED raised
       ELSE /\ raised' = "FileNotFoundError"
            /\ pc' = "done"
            /\ UNCHANGED reads
    /\ UNCHANGED << saver, perm, argv, sysArgv, cfg, fs, args, file_content, running, llama_server,
                    elapsed, system_prompt, user_prompt, attempt, raw_content, cleaned,
                    choice, decision, stdout, exitCode, probes, pollOk, spawned, sent,
                    invocations, retryYes, atEntry,
                    lastProbe, tried, sleeps, response, produced >>

\* main: lines 839-849.  Print the question, read the answer, commit or revert.
Confirm ==
    /\ pc = "confirm"
    /\ stdout' = stdout \o <<ConfirmBanner, ConfirmPrompt>>
    /\ \E answer \in ConfirmAnswers :
          IF answer = EndOfInput
          THEN /\ raised' = "EOFError"
               /\ pc' = "done"
               /\ UNCHANGED <<choice, decision, fs, exitCode, produced>>
          ELSE /\ choice' = Strip(answer)
               /\ IF ConfirmAccepts(choice')
                  THEN /\ decision' = "commit"
                       /\ produced' = Append(produced, "commit")
                       /\ pc' = "done"
                       /\ exitCode' = ReturnCode("commit")
                       /\ UNCHANGED <<fs, raised>>
                  ELSE IF Exists(fs, BakOf(TargetOf(args)))
                  THEN /\ decision' = "revert"
                       /\ fs' = RestoreFromBackup(fs, TargetOf(args))
                       /\ pc' = "retry_offer"
                       /\ UNCHANGED <<exitCode, raised, produced>>
                  ELSE /\ decision' = "revert"
                       /\ fs' = RemoveFile(fs, TargetOf(args))
                       /\ raised' = "FileNotFoundError"
                       /\ pc' = "done"
                       /\ UNCHANGED <<exitCode, produced>>
    /\ UNCHANGED << saver, perm, argv, sysArgv, cfg, args, file_content, running, llama_server,
                    elapsed, system_prompt, user_prompt, attempt, raw_content, cleaned,
                    probes, pollOk, spawned, sent, reads, invocations, retryYes,
                    atEntry, lastProbe, tried, sleeps, response >>

\* main: lines 850-855.  The retry offer; an accepted retry re-enters main.
RetryOffer ==
    /\ pc = "retry_offer"
    /\ stdout' = Append(stdout, RetryPrompt)
    /\ \E answer \in RetryAnswers :
          IF answer = EndOfInput
          THEN /\ raised' = "EOFError"
               /\ pc' = "done"
               /\ UNCHANGED <<choice, exitCode, argv, invocations, retryYes, atEntry,
                              decision, probes, pollOk, spawned, reads>>
          ELSE /\ choice' = Strip(answer)
               /\ IF ~RetryAccepts(choice')
                  THEN /\ pc' = "done"
                       /\ exitCode' = ReturnCode("no-retry")
                       /\ UNCHANGED <<raised, argv, invocations, retryYes, atEntry,
                                      decision, probes, pollOk, spawned, reads>>
                  ELSE IF argv = None
                  THEN \* [*argv, ...] with argv None
                       /\ raised' = "TypeError"
                       /\ pc' = "done"
                       /\ retryYes' = retryYes + 1
                       /\ UNCHANGED <<exitCode, argv, invocations, atEntry, decision,
                                      probes, pollOk, spawned, reads>>
                  ELSE \* return main([*argv, "-t", str(new_temp)])
                       /\ invocations < MaxInvocations
                       /\ argv' = Append(argv, TokNum("-t", NewTemp(args.temperature)))
                       /\ invocations' = invocations + 1
                       /\ retryYes' = retryYes + 1
                       /\ atEntry' = [fs |-> fs, stdout |-> stdout']
                       /\ decision' = "none"
                       /\ probes' = 0
                       /\ pollOk' = FALSE
                       /\ spawned' = FALSE
                       /\ reads' = {}
                       /\ pc' = "entry"
                       /\ UNCHANGED <<exitCode, raised>>
    /\ IF pc' = "entry"
       THEN \* a new frame of main: its locals are not yet assigned
            /\ args' = NoArgs
            /\ file_content' = <<>>
            /\ running' = FALSE
            /\ llama_server' = FALSE
            /\ elapsed' = 0
            /\ system_prompt' = <<>>
            /\ user_prompt' = <<>>
            /\ attempt' = 0
            /\ raw_content' = NoReply
            /\ cleaned' = <<>>
            /\ lastProbe' = "none"
            /\ tried' = <<>>
            /\ sleeps' = 0
            /\ response' = NoDoc
       ELSE UNCHANGED << args, file_content, running, llama_server, elapsed,
                         system_prompt, user_prompt, attempt, raw_content, cleaned,
                         lastProbe, tried, sleeps, response >>
    /\ UNCHANGED << saver, perm, sysArgv, cfg, fs, sent, produced >>

Next ==
    \/ ParseAndRead
    \/ FirstProbe
    \/ Bootstrap
    \/ Poll
    \/ BuildPrompts
    \/ QueryAttempt
    \/ QueryExhausted
    \/ Respond
    \/ SaveScript
    \/ Backup
    \/ Mutate
    \/ Review
    \/ Confirm
    \/ RetryOffer

Spec == Init /\ [][Next]_vars


(***************************************************************************)
(* strip_fences on its own: every text over a small alphabet is cleaned,   *)
(* and the result is cleaned once more.                                    *)
(***************************************************************************)
Alphabet == {BT, SP, NL, "a"}

Texts == UNION { [1..n -> Alphabet] : n \in 0..MaxTextLen }

InitClean ==
    /\ raw_content \in Texts
    /\ pc = "clean"
    /\ argv = <<>>
    /\ sysArgv = <<>>
    /\ cfg = BaseCfg
    /\ fs = InitialFs(FALSE, FALSE)
    /\ atEntry = [fs |-> InitialFs(FALSE, FALSE), stdout |-> <<>>]
    /\ args = NoArgs
    /\ file_content = <<>>
    /\ running = FALSE
    /\ llama_server = FALSE
    /\ elapsed = 0
    /\ system_prompt = <<>>
    /\ user_prompt = <<>>
    /\ attempt = 0
    /\ cleaned = <<>>
    /\ choice = <<>>
    /\ decision = "none"
    /\ stdout = <<>>
    /\ exitCode = -1
    /\ raised = "none"
    /\ probes = 0
    /\ pollOk = FALSE
    /\ spawned = FALSE
    /\ sent = {}
    /\ reads = {}
    /\ invocations = 1
    /\ retryYes = 0
    /\ lastProbe = "none"
    /\ tried = <<>>
    /\ sleeps = 0
    /\ response = NoDoc
    /\ produced = <<>>
    /\ perm = <<>>
    /\ saver = <<>>

\* main, line 819: cleaned = strip_fences(raw_content)
Clean ==
    /\ pc = "clean"
    /\ cleaned' = strip_fences(raw_content)
    /\ pc' = "cleaned"
    /\ UNCHANGED << saver, perm, argv, sysArgv, cfg, fs, args, file_content, running, llama_server,
                    elapsed, system_prompt, user_prompt, attempt, raw_content, choice,
                    decision, stdout, exitCode, raised, probes, pollOk, spawned, sent,
                    reads, invocations, retryYes, atEntry, lastProbe, tried, sleeps,
                    response, produced >>

\* the cleaned text comes back as a reply and is cleaned again
CleanAgain ==
    /\ pc = "cleaned"
    /\ raw_content' = cleaned
    /\ cleaned' = strip_fences(cleaned)
    /\ pc' = "recleaned"
    /\ UNCHANGED << saver, perm, argv, sysArgv, cfg, fs, args, file_content, running, llama_server,
                    elapsed, system_prompt, user_prompt, attempt, choice,
                    decision, stdout, exitCode, raised, probes, pollOk, spawned, sent,
                    reads, invocations, retryYes, atEntry, lastProbe, tried, sleeps,
                    response, produced >>

NextClean == Clean \/ CleanAgain

SpecClean == InitClean /\ [][NextClean]_vars


(***************************************************************************)
(* save_script on its own: one process calling it several times in a row,  *)
(* or two processes calling it once each at the same time, on a directory  *)
(* that may already hold files of the same name.  Each call is taken in    *)
(* steps: derive the label, test one candidate, write, chmod and return.   *)
(***************************************************************************)
GivenLabels == {"script", "foo"}

SaveModes == {<<"bash">>, <<"python">>, <<"none">>}

Stamp == "script_HHMMSS"

\* the content a process saves in its n-th call from the last
ScriptText(p, n) == <<"#", ToString(p), ToString(n)>>

Frame(n, given, parsed, mode, pre) ==
    [pc |-> "idle", left |-> n, given |-> given, parsed |-> parsed, mode |-> mode,
     pre |-> pre, label |-> "", idx |-> 0, text |-> <<>>, raised |-> "none",
     log |-> <<>>]

\* the files of the date folder before the first call: label, label_1, ... for
\* the indices in pre
FolderWith(label, ext, pre) == [q \in {Candidate(label, i, ext) : i \in pre} |-> ContentOld]

\* what main's own variables hold while save_script is run on its own
MainVars ==
    << argv, sysArgv, pc, args, file_content, running, llama_server, elapsed,
       system_prompt, user_prompt, attempt, raw_content, cleaned, choice, decision,
       stdout, exitCode, raised, probes, pollOk, spawned, sent, reads, invocations,
       retryYes, lastProbe, tried, sleeps, response, produced >>

InitSave(procs, n) ==
    /\ \E given \in GivenLabels, parsed \in ParseResults, mode \in SaveModes,
          pre \in SUBSET {0, 1, 2}, umask \in {Umask022, Umask077} :
          /\ saver = [p \in procs |-> Frame(n, given, parsed, mode, pre)]
          /\ fs = FolderWith(find_label(given, parsed, Stamp),
                             extension_for_mode(mode), pre)
          /\ perm = [q \in DOMAIN fs |-> Bits644]
          /\ atEntry = [fs |-> fs, stdout |-> <<>>]
          /\ cfg = [BaseCfg EXCEPT !.umask = umask]
    /\ pc = "saving"
    /\ argv = <<>>
    /\ sysArgv = <<>>
    /\ args = NoArgs
    /\ file_content = <<>>
    /\ running = FALSE
    /\ llama_server = FALSE
    /\ elapsed = 0
    /\ system_prompt = <<>>
    /\ user_prompt = <<>>
    /\ attempt = 0
    /\ raw_content = NoReply
    /\ cleaned = <<>>
    /\ choice = <<>>
    /\ decision = "none"
    /\ stdout = <<>>
    /\ exitCode = -1
    /\ raised = "none"
    /\ probes = 0
    /\ pollOk = FALSE
    /\ spawned = FALSE
    /\ sent = {}
    /\ reads = {}
    /\ invocations = 1
    /\ retryYes = 0
    /\ lastProbe = "none"
    /\ tried = <<>>
    /\ sleeps = 0
    /\ response = NoDoc
    /\ produced = <<>>

InitSaveSeq == InitSave({1}, MaxSaves)

InitSaveRace == InitSave({1, 2}, 1)

CandidateOf(fr) == Candidate(fr.label, fr.idx, extension_for_mode(fr.mode))

\* save_script, lines 470-477: the folder, the extension, find_label, idx = 0
BeginSave ==
    \E p \in DOMAIN saver :
        LET fr == saver[p]
            label == find_label(fr.given, fr.parsed, Stamp)
        IN  /\ fr.pc = "idle"
            /\ fr.left > 0
            /\ saver' = [saver EXCEPT ![p] =
                            IF LabelRaised(label)
                            THEN [fr EXCEPT !.pc = "failed", !.raised = "RecursionError"]
                            ELSE [fr EXCEPT !.pc = "probe", !.label = label, !.idx = 0,
                                            !.text = ScriptText(p, fr.left)]]
            /\ UNCHANGED <<fs, perm, cfg, atEntry, MainVars>>

\* save_script, lines 478-483: one turn of "while True"
ProbeCandidate ==
    \E p \in DOMAIN saver :
        LET fr == saver[p]
        IN  /\ fr.pc = "probe"
            /\ saver' = [saver EXCEPT ![p] =
                            IF Exists(fs, CandidateOf(fr))
                            THEN [fr EXCEPT !.idx = fr.idx + 1]
                            ELSE [fr EXCEPT !.pc = "write"]]
            /\ UNCHANGED <<fs, perm, cfg, atEntry, MainVars>>

\* save_script, line 485: candidate.write_text(content)
WriteCandidate ==
    \E p \in DOMAIN saver :
        LET fr == saver[p]
            c == CandidateOf(fr)
            bits == BitsAfterWrite(perm, c, cfg.umask)
        IN  /\ fr.pc = "write"
            /\ fs' = WriteFile(fs, c, fr.text)
            /\ perm' = WriteFile(perm, c, bits)
            /\ saver' = [saver EXCEPT ![p] =
                            [fr EXCEPT !.pc = "chmod",
                                       !.log = Append(fr.log,
                                           [path |-> c, idx |-> fr.idx, text |-> fr.text,
                                            fresh |-> c \notin DOMAIN fs,
                                            written |-> bits])]]
            /\ UNCHANGED <<cfg, atEntry, MainVars>>

\* save_script, lines 486-489: chmod for the shell modes, return candidate
FinishSave ==
    \E p \in DOMAIN saver :
        LET fr == saver[p]
            c == CandidateOf(fr)
        IN  /\ fr.pc = "chmod"
            /\ perm' = [perm EXCEPT ![c] = BitsAfterChmod(perm[c], fr.mode, TRUE)]
            /\ saver' = [saver EXCEPT ![p] = [fr EXCEPT !.pc = "idle", !.left = fr.left - 1]]
            /\ UNCHANGED <<fs, cfg, atEntry, MainVars>>

NextSave == BeginSave \/ ProbeCandidate \/ WriteCandidate \/ FinishSave

SpecSaveSeq == InitSaveSeq /\ [][NextSave]_vars

SpecSaveRace == InitSaveRace /\ [][NextSave]_vars


(***************************************************************************)
(* Properties.                                                             *)
(***************************************************************************)
Target == TargetOf(args)

\* the edit/append workflow was entered by this invocation
WorkflowEntered ==
    /\ pc \in {"backup", "mutate", "review", "confirm", "retry_offer", "done"}
    /\ FileOpOf(args) # "none"
    /\ ~args.raw /\ ~args.justanswer
    /\ raw_content # NoReply
    /\ running

\* C1: when the target existed before the invocation and the user's answer to
\* the confirmation prompt was not affirmative, the target again holds its
\* pre-invocation content and the .bak sibling is gone (edit and append alike).
C1_RevertRestoresTarget ==
    (decision = "revert" /\ Exists(atEntry.fs, Target))
        => /\ Exists(fs, Target)
           /\ fs[Target] = atEntry.fs[Target]
           /\ ~Exists(fs, BakOf(Target))

C1_Witness ==
    /\ pc = "retry_offer"
    /\ decision = "revert"
    /\ FileOpOf(args) = "append"
    /\ cleaned # <<>>
    /\ Exists(atEntry.fs, Target)
    /\ fs[Target] = ContentA

\* C2: between the mutation of the target and the reading of the user's
\* decision a .bak sibling exists and holds the target's pre-mutation content
\* (empty for a target that did not exist), for every initial filesystem.
C2_BackupHeldWhileMutated ==
    pc \in {"review", "confirm"}
        => /\ Exists(fs, BakOf(Target))
           /\ fs[BakOf(Target)] = file_content

\* C3: an edit/append of a target that does not exist is tolerated: the
\* workflow raises no file error and, when it ends, main has returned 0.
C3_AbsentTargetTolerated ==
    (WorkflowEntered /\ ~Exists(atEntry.fs, Target))
        => /\ raised # "FileNotFoundError"
           /\ (pc = "done" /\ raised = "none" => exitCode = 0)

\* C4: the Confirm step commits exactly when the trimmed answer is empty or a
\* yes-family token compared case-insensitively, and reverts otherwise.
LowerChar(c) ==
    IF c = "Y" THEN "y" ELSE IF c = "E" THEN "e" ELSE IF c = "S" THEN "s"
    ELSE IF c = "J" THEN "j" ELSE IF c = "A" THEN "a" ELSE c

Lower(t) == [i \in 1..Len(t) |-> LowerChar(t[i])]

YesFamily(c) ==
    c = <<>> \/ Lower(c) \in {<<"y">>, <<"y", "e", "s">>, <<"j">>, <<"j", "a">>}

C4_CommitIffYesFamily ==
    /\ (pc = "retry_offer" => ~YesFamily(choice))
    /\ (pc = "done" /\ decision = "commit" => YesFamily(choice))

\* C5: every affirmative answer to the retry offer re-enters main, also when
\* main was entered from the command line with no argument list.
C5_RetryReentersPipeline ==
    /\ invocations = retryYes + 1
    /\ raised # "TypeError"

\* C6: no chat request carries a negative temperature, whatever non-negative
\* temperature the first run started from and however many retries followed.
C6_TemperatureNeverNegative ==
    \A r \in sent : r.temperature >= 0

\* C7: a retried run sends t - 0.1 when the run before it sent t > 0.2 and
\* t - 0.01 otherwise (50 -> 40, 15 -> 14, 20 -> 19 in hundredths), which is
\* strictly lower than t.
C7_RetryLowersTemperature ==
    \A r1 \in sent, r2 \in sent :
        r2.inv = r1.inv + 1
            => /\ r2.temperature = IF r1.temperature > 20 THEN r1.temperature - 10
                                   ELSE r1.temperature - 1
               /\ r2.temperature < r1.temperature
               /\ (r1.temperature = 50 => r2.temperature = 40)
               /\ (r1.temperature = 15 => r2.temperature = 14)
               /\ (r1.temperature = 20 => r2.temperature = 19)

C7_Witness ==
    \E r1 \in sent, r2 \in sent :
        r2.inv = r1.inv + 1 /\ r1.temperature = 20 /\ r2.temperature = 19

\* C8: with both --edit and --append, main returns 1 having made no probe, sent
\* no chat request, spawned nothing, read or changed no file, printed nothing.
BothFileOpsGiven ==
    /\ HasOpt(EffectiveArgs(argv, sysArgv), "-e")
    /\ HasOpt(EffectiveArgs(argv, sysArgv), "-a")

C8_ConflictFailsFast ==
    BothFileOpsGiven
        => /\ pc \in {"entry", "done"}
           /\ (pc = "done" => exitCode = 1 /\ raised = "none")
           /\ probes = 0 /\ sent = {} /\ ~spawned /\ reads = {}
           /\ fs = atEntry.fs /\ stdout = <<>>

C8_Witness ==
    BothFileOpsGiven /\ pc = "done" /\ exitCode = 1 /\ Exists(fs, TargetPath)

\* C9: when ensure_llm_running reports not ready, main returns 1 at once: no
\* chat request of this invocation, no file written, nothing on stdout, and
\* no process spawned unless a bootstrap command is configured.
EnsureReportedNotReady ==
    probes > 0 /\ ~running /\ pc \notin {"ensure", "bootstrap", "poll"}

C9_AvailabilityGates ==
    EnsureReportedNotReady
        => /\ pc = "done" /\ exitCode = 1 /\ raised = "none"
           /\ {r \in sent : r.inv = invocations} = {}
           /\ fs = atEntry.fs
           /\ stdout = atEntry.stdout
           /\ (~cfg.starter => ~spawned)

C9_Witness ==
    /\ EnsureReportedNotReady
    /\ pc = "done"
    /\ spawned
    /\ FileOpOf(args) = "edit"

\* C10: after the bootstrap command was launched, ready is reported only if
\* some probe of the poll loop succeeded.
C10_ReadyOnlyAfterProbeSuccess ==
    (spawned /\ running) => pollOk

\* ensure_llm_running reported ready and the latest probe had the given outcome
ReadyVia(outcome) ==
    running /\ lastProbe = outcome /\ pc \notin {"entry", "ensure", "bootstrap", "poll"}

RoutesUsed == { r.route : r \in { q \in sent : q.inv = invocations } }

\* C11: whenever ensure_llm_running reports ready, the backend kind it returns
\* is the one implied by the probe that succeeded (the llama-server kind after a
\* /health success, the ollama kind after a root-route success), on the first
\* probe and after a bootstrap alike, and main's chat requests go to the route
\* of that kind.
C11_KindFollowsSuccessfulProbe ==
    /\ ReadyVia("health")
          => llama_server /\ RoutesUsed \subseteq {"/v1/chat/completions"}
    /\ ReadyVia("root")
          => ~llama_server /\ RoutesUsed \subseteq {"/api/chat"}

\* every turn of the query loop so far ended in a connection error
AllRefused == tried # <<>> /\ \A i \in 1..Len(tried) : tried[i] = "URLError"

\* C12: with retries = n >= 1, a client whose every attempt fails with a
\* connection error makes exactly n POST attempts and sleeps exactly n - 1
\* times, then returns no content, and main returns 1 having printed nothing;
\* an attempt k <= n that gets a response is the last one, after k - 1 sleeps.
C12_RetryBudgetExact ==
    /\ (cfg.retries >= 1 /\ AllRefused /\ pc # "query")
          => /\ Len(tried) = cfg.retries
             /\ sleeps = cfg.retries - 1
             /\ raw_content = NoReply
             /\ pc \in {"respond", "done"}
             /\ pc = "done" => /\ exitCode = 1 /\ raised = "none"
                               /\ stdout = atEntry.stdout
    /\ \A k \in 1..Len(tried) :
          tried[k] = "response"
             => /\ k = Len(tried) /\ k <= cfg.retries
                /\ pc # "query"
                /\ sleeps = k - 1
                /\ \A i \in 1..(k - 1) : tried[i] = "URLError"

C12_Witness ==
    /\ AllRefused /\ pc = "done" /\ exitCode = 1
    /\ cfg.retries >= 2 /\ Len(tried) = cfg.retries /\ sleeps = cfg.retries - 1

\* C13: every kind of transport-level failure of a chat attempt (refused
\* connection, read timeout, reset in the body, undecodable body) is handled
\* by the retry policy: it does not leave the client as an exception; while
\* fewer than retries attempts were made the client sleeps and attempts
\* again, and after the last attempt it returns no content.
C13_TransportFailuresRetried ==
    \A i \in 1..Len(tried) :
        tried[i] \in TransportFailures
           => /\ raised \notin TransportFailures
              /\ i < cfg.retries => /\ Len(tried) > i \/ pc = "query"
                                    /\ sleeps >= i
              /\ (i = cfg.retries /\ pc # "query") => raw_content = NoReply

\* the latest response parsed as JSON but lacks the content the client reads
LacksContent ==
    /\ response # NoDoc
    /\ \/ llama_server /\ response.choices \in {"missing", "empty"}
       \/ response.message \in {"missing", "null"}
       \/ response.content \in {Missing, NoReply}

\* C14: after a successful HTTP response whose JSON lacks the expected content
\* (no or empty 'choices', no or null 'message', no or null 'content') the
\* client returns no content without a further attempt, and main takes the
\* 'no response' path: nothing on stdout, exit code 1, no file written.
C14_MalformedResponseIsNoResponse ==
    LacksContent
       => /\ raised = "none"
          /\ raw_content = NoReply
          /\ tried[Len(tried)] = "response"
          /\ pc \in {"respond", "done"}
          /\ pc = "done" => /\ exitCode = 1
                            /\ stdout = atEntry.stdout
                            /\ fs = atEntry.fs

\* C15: every invocation of main ends by returning 0, 1 or 2; no failure of
\* the backend, the filesystem or the prompts leaves main as an exception,
\* and 2 is returned only when a script file was saved.
C15_MainAlwaysReturnsACode ==
    /\ raised = "none"
    /\ pc = "done" => exitCode \in {0, 1, 2}
    /\ exitCode = 2 => \E p \in DOMAIN fs : p[1] = OutputDir /\ fs[p] = cleaned

HasNewline(t) == \E i \in 1..Len(t) : t[i] = NL

Delivered(kind) == \E i \in 1..Len(produced) : produced[i] = kind

\* C16: a cleaned text is treated as a one-liner iff it has no newline and
\* fewer than 512 characters (511 is a one-liner, 512 a script); save_script
\* is reached only with a text that is not a one-liner, and no file under the
\* output directory holds a one-liner.
C16_ClassifyExact ==
    /\ (pc = "save" \/ Delivered("script"))
          => HasNewline(cleaned) \/ Len(cleaned) >= 512
    /\ Delivered("oneliner")
          => ~HasNewline(cleaned) /\ Len(cleaned) <= 511
    /\ \A p \in DOMAIN fs :
          p[1] = OutputDir => HasNewline(fs[p]) \/ Len(fs[p]) >= 512

C16_Witness ==
    /\ Delivered("script")
    /\ ~HasNewline(cleaned) /\ Len(cleaned) = 512
    /\ \E p \in DOMAIN fs : p[1] = OutputDir /\ fs[p] = cleaned

\* some line of t consists of spaces followed by three backquotes and more
HasFenceLine(t) ==
    \E i \in 1..Len(t) :
        /\ i = 1 \/ t[i - 1] = NL
        /\ \E j \in i..(Len(t) - 2) :
              /\ \A k \in i..(j - 1) : t[k] = SP
              /\ t[j] = BT /\ t[j + 1] = BT /\ t[j + 2] = BT

\* the first, or the last, line of a non-empty t holds nothing but spaces
BlankAtEdge(t) ==
    /\ t # <<>>
    /\ \/ \E i \in 1..(Len(t) + 1) :
             /\ i = Len(t) + 1 \/ t[i] = NL
             /\ \A k \in 1..(i - 1) : t[k] = SP
       \/ \E i \in 0..Len(t) :
             /\ i = 0 \/ t[i] = NL
             /\ \A k \in (i + 1)..Len(t) : t[k] = SP

\* C17: strip_fences is idempotent on every text over backquotes, spaces,
\* newlines and an ordinary character, and its result has no line whose
\* trimmed form starts with three backquotes and no blank first or last line.
C17_StripFencesIdempotent ==
    /\ pc = "cleaned" => strip_fences(cleaned) = cleaned
    /\ pc = "recleaned" => cleaned = raw_content
    /\ pc \in {"cleaned", "recleaned"}
          => ~HasFenceLine(cleaned) /\ ~BlankAtEdge(cleaned)

C17_Witness ==
    /\ pc = "cleaned"
    /\ HasFenceLine(raw_content)
    /\ cleaned # <<>> /\ cleaned # raw_content
    /\ strip_fences(cleaned) = cleaned

Succeeded == pc = "done" /\ exitCode \in {0, 2}

\* C18 as stated: every invocation that ends with exit code 0 or 2 produced
\* exactly one of the outcomes one-liner, script, snippet, raw, answer-only
\* and commit; never none, never two.
C18_ExactlyOneOutcome ==
    Succeeded => Len(produced) = 1

\* C18 amended: an invocation that ends with exit code 0 or 2 produced at most
\* one of the outcomes, and none only when it ends in an edit or append that
\* was reverted and not retried, which returns 0; exit code 2 goes with the
\* script outcome alone.
C18_OneOutcomeUnlessReverted ==
    /\ Len(produced) <= 1
    /\ Succeeded
          => \/ Len(produced) = 1
             \/ /\ decision = "revert" /\ FileOpOf(args) # "none"
                /\ exitCode = 0
                /\ ~RetryAccepts(choice)
    /\ (Succeeded /\ produced = <<"commit">>) => decision = "commit"
    /\ (pc = "done" /\ exitCode = 2) <=> Delivered("script")

C18_Witness ==
    /\ Succeeded /\ produced = <<>>
    /\ decision = "revert" /\ exitCode = 0

\* the script files this invocation created
NewScripts == { p \in DOMAIN fs \ DOMAIN atEntry.fs : p[1] = OutputDir }

\* C19: when a script is saved main returns 2; without a prompt-file stdout
\* receives the path save_script returned, and with a prompt-file stdout
\* receives nothing and the prompt-file holds 'python3 <path>' in python mode
\* and the bare path in every other mode.
C19_ScriptSavedOutputs ==
    \A p \in NewScripts :
        /\ pc = "done" /\ exitCode = 2 /\ raised = "none"
        /\ args.prompt_file = NoPath => stdout = Append(atEntry.stdout, p)
        /\ args.prompt_file # NoPath
              => /\ stdout = atEntry.stdout
                 /\ fs[args.prompt_file] =
                       IF args.mode = <<"python">> THEN <<"python3 ">> \o p ELSE p

PlainFlags ==
    ~args.raw /\ ~args.justanswer /\ ~args.snippet /\ FileOpOf(args) = "none"

\* replies whose cleaned form is a one-liner, and that form
OneLinerReplies ==
    {OneLineReply, FencedOneLineReply, EmptyReply, LongestOneLineReply}

CleanedFormOf(reply) == IF reply = FencedOneLineReply THEN <<"l", "s">> ELSE reply

\* C20: when the result is a one-liner and none of raw, justanswer, snippet
\* and a file operation is asked for, main returns 0, stdout receives the
\* cleaned one-liner, a prompt-file, when given, ends up holding exactly that
\* text in place of its previous content, and no script file is created.
C20_OneLinerOutputs ==
    /\ (PlainFlags /\ pc = "done" /\ raised = "none" /\ raw_content \in OneLinerReplies)
          => /\ exitCode = 0
             /\ cleaned = CleanedFormOf(raw_content)
             /\ Delivered("oneliner")
    /\ Delivered("oneliner")
          => /\ PlainFlags /\ pc = "done" /\ exitCode = 0 /\ raised = "none"
             /\ stdout = Append(atEntry.stdout, cleaned)
             /\ args.prompt_file # NoPath
                   => fs = [atEntry.fs EXCEPT ![args.prompt_file] = cleaned]
             /\ args.prompt_file = NoPath => fs = atEntry.fs
             /\ NewScripts = {}

C20_Witness ==
    /\ Delivered("oneliner")
    /\ raw_content = FencedOneLineReply
    /\ args.prompt_file = PromptPath
    /\ atEntry.fs[PromptPath] = ContentOld
    /\ fs[PromptPath] = <<"l", "s">>
    /\ stdout = << <<"l", "s">> >>

\* C21: an edit or append invocation that ends by commit, or by revert with no
\* retry, returns 0 and has written nothing to stdout: every message of the
\* workflow, the confirmation question included, went to the diagnostic stream.
C21_WorkflowKeepsStdoutClean ==
    (FileOpOf(args) # "none" /\ pc = "done" /\ raised = "none"
        /\ decision \in {"commit", "revert"})
       => exitCode = 0 /\ stdout = <<>>


\* the smallest index that is neither in the folder at the start nor taken by one
\* of the first k - 1 calls of the log
SmallestFree(taken) == CHOOSE i \in 0..(Cardinality(taken)) :
                           i \notin taken /\ \A j \in 0..(i - 1) : j \in taken

TakenBefore(fr, k) == fr.pre \cup {fr.log[j].idx : j \in 1..(k - 1)}

\* the label a call must use: the last function name that is not "main", and the
\* given label (the time stamp for "script") when there is none or no parse
ExpectedLabel(fr) ==
    LET NotMain(n) == n # "main"
        names == IF fr.parsed \in {SyntaxError, RecursionError} THEN <<>>
                 ELSE SelectSeq(fr.parsed, NotMain)
    IN  IF names # <<>> THEN names[Len(names)]
        ELSE IF fr.given = "script" THEN Stamp ELSE fr.given

\* C22: calls of save_script made one after another by one process each write a
\* file that did not exist, named by the label and the smallest suffix index not
\* yet used (none for 0, _1, _2, ...), and leave every file that was already
\* there, and every file an earlier call wrote, with its content.
C22_SequentialSavesNeverCollide ==
    \A p \in DOMAIN saver :
        LET fr == saver[p]
        IN  /\ \A k \in 1..Len(fr.log) :
                  /\ fr.log[k].fresh
                  /\ fr.log[k].idx = SmallestFree(TakenBefore(fr, k))
                  /\ fr.log[k].path[3] = fr.label
                  /\ fr.log[k].path[4] = IF fr.log[k].idx = 0 THEN ""
                                         ELSE "_" \o ToString(fr.log[k].idx)
                  /\ fr.log[k].path \in DOMAIN fs
                  /\ fs[fr.log[k].path] = fr.log[k].text
            /\ \A q \in DOMAIN atEntry.fs : q \in DOMAIN fs /\ fs[q] = atEntry.fs[q]

\* three calls on a folder that already holds label_1: label, label_2, label_3
C22_Witness ==
    /\ pc = "saving"
    /\ saver[1].pre = {1}
    /\ Len(saver[1].log) = 3
    /\ saver[1].log[1].idx = 0
    /\ saver[1].log[2].idx = 2
    /\ saver[1].log[3].idx = 3

\* C23: two processes saving at the same time with the same label end with two
\* different files, each holding what its process wrote.
C23_ConcurrentSavesNeverCollide ==
    \A p \in DOMAIN saver : \A q \in DOMAIN saver :
        (p # q /\ saver[p].log # <<>> /\ saver[q].log # <<>>
              /\ saver[p].pc = "idle" /\ saver[q].pc = "idle")
           => /\ saver[p].log[1].path # saver[q].log[1].path
              /\ fs[saver[p].log[1].path] = saver[p].log[1].text
              /\ fs[saver[q].log[1].path] = saver[q].log[1].text

\* C24: after a save the file of a shell mode has the permission bits it was
\* written with plus the three execute bits, and the file of any other mode has
\* the bits it was written with.
C24_ChmodAddsExecuteBitsOnly ==
    \A p \in DOMAIN saver :
        LET fr == saver[p]
        IN  \A k \in 1..Len(fr.log) :
                (k < Len(fr.log) \/ fr.pc = "idle")
                   => perm[fr.log[k].path] =
                          IF fr.mode[1] \in SHELL_MODES
                          THEN fr.log[k].written \cup ExecBits
                          ELSE fr.log[k].written

\* C25: every call derives its label as the last function name that is not
\* "main", or as the given label when the code defines no such function or does
\* not parse, and no parse failure makes the call fail.
C25_LabelDerivedParseNeverFails ==
    \A p \in DOMAIN saver :
        LET fr == saver[p]
        IN  (fr.pc # "idle" \/ fr.log # <<>>)
               => fr.raised = "none" /\ fr.label = ExpectedLabel(fr)

SnippetFlags ==
    args.snippet /\ ~args.raw /\ ~args.justanswer /\ FileOpOf(args) = "none"

\* C26: in snippet mode, with no raw, justanswer or file-operation flag, main
\* returns 0 for every reply of the model, of one line or of many, writes
\* nothing to stdout, creates no script file and leaves the prompt-file and
\* every other file as they were; the snippet itself is shown in no other mode.
C26_SnippetModeIsSilent ==
    /\ (SnippetFlags /\ pc = "done" /\ raw_content # NoReply)
          => /\ exitCode = 0
             /\ raised = "none"
             /\ stdout = <<>>
             /\ NewScripts = {}
             /\ fs = atEntry.fs
             /\ produced = <<"snippet">>
    /\ Delivered("snippet") => SnippetFlags

\* a reply too long for a one-liner, a prompt-file given
C26_Witness ==
    /\ pc = "done"
    /\ SnippetFlags
    /\ Delivered("snippet")
    /\ raw_content = ShortestScriptReply
    /\ args.prompt_file = PromptPath
    /\ fs[PromptPath] = ContentOld
    /\ exitCode = 0

ScriptMarker == "__SCRIPT__:"

\* C27: when the result is a saved script, stdout receives one line made of the
\* marker __SCRIPT__: followed by the path of the script.
C27_ScriptPathIsMarked ==
    Delivered("script")
       => \E p \in NewScripts :
             \E i \in 1..Len(stdout) :
                 stdout[i] = <<ScriptMarker>> \o RelativeTo(p, cfg.under_dir)

\* what the target held when this invocation of main started
OriginalContent ==
    IF TargetOf(args) \in DOMAIN atEntry.fs THEN atEntry.fs[TargetOf(args)] ELSE <<>>

IsPrefix(s, t) == Len(s) <= Len(t) /\ SubSeq(t, 1, Len(s)) = s

Committed ==
    pc = "done" /\ raised = "none" /\ decision = "commit" /\ FileOpOf(args) # "none"

\* C28: after a committed edit the target holds the cleaned text and one
\* newline; after a committed append it holds the original content, one newline
\* more when the original was not empty and did not end with one, then a
\* newline, the cleaned text and a newline, so that the original content is a
\* prefix of the file.
C28_CommittedContent ==
    Committed
       => LET now == fs[TargetOf(args)]
              sep == IF OriginalContent # <<>>
                        /\ OriginalContent[Len(OriginalContent)] # NL
                     THEN <<NL>> ELSE <<>>
          IN  /\ FileOpOf(args) = "edit" => now = cleaned \o <<NL>>
              /\ FileOpOf(args) = "append"
                    => /\ now = OriginalContent \o sep \o <<NL>> \o cleaned \o <<NL>>
                       /\ IsPrefix(OriginalContent, now)

\* an append to a file without a final newline, committed after one retry
C28_Witness ==
    /\ Committed
    /\ FileOpOf(args) = "append"
    /\ invocations = 2
    /\ OriginalContent = ContentA
    /\ raw_content = FencedReply
    /\ fs[TargetPath] = <<"A", NL, NL, "a", NL, "b", NL>>

C28_WitnessTerminated ==
    /\ Committed
    /\ FileOpOf(args) = "append"
    /\ OriginalContent = ContentOld
    /\ fs[TargetPath] = ContentOld \o <<NL>> \o cleaned \o <<NL>>

GenericAssistantPrompt == <<"helpful-assistant-short-best-option">>

\* C29: with the justanswer flag, whatever the other flags and whatever an edit
\* or append target holds, every request sent carries the task text as given
\* as its user prompt and the fixed generic assistant prompt, with no other
\* clause, as its system prompt.
C29_JustAnswerPromptsAreFixed ==
    args.justanswer
       => \A r \in sent :
             /\ r.user = args.task
             /\ r.system = GenericAssistantPrompt

\* the mode flag as given on the command line, <<>> when absent
ModeFlagGiven == ParseArgs(EffectiveArgs(argv, sysArgv)).mode

ModeOrBash == IF ModeFlagGiven = <<>> THEN <<"bash">> ELSE ModeFlagGiven

ModeOfExtension(ext) ==
    IF ext = ".py" THEN <<"python">>
    ELSE IF ext = ".sh" THEN <<"sh">>
    ELSE IF ext = ".zsh" THEN <<"zsh">>
    ELSE <<"fish">>

\* main has parsed the arguments of an edit or append and resolved the mode
ModeResolved ==
    pc # "entry" /\ FileOpOf(args) # "none" /\ ~MutuallyExclusive(args)

\* every request of this invocation was built for mode m
PromptsUse(m) ==
    \A r \in sent :
        r.inv = invocations
           => /\ r.user = UserPromptOf([args EXCEPT !.mode = m], file_content)
              /\ r.system = SystemPromptOf([args EXCEPT !.mode = m])

\* C30 as stated: for an edit or append target whose extension is one of .py,
\* .sh, .zsh, .fish the mode of the prompt and of the fence tag is the one of
\* the extension whatever the mode flag, and extension_for_mode of it is the
\* file's extension; for any other extension it is the mode flag, or bash.
C30_ModeFollowsExtension ==
    ModeResolved
       => LET ext == SuffixOfPath(TargetOf(args))
          IN  IF ext \in {".py", ".sh", ".zsh", ".fish"}
              THEN /\ args.mode = ModeOfExtension(ext)
                   /\ extension_for_mode(args.mode) = ext
                   /\ PromptsUse(ModeOfExtension(ext))
              ELSE /\ args.mode = ModeOrBash
                   /\ PromptsUse(ModeOrBash)

\* the extension with its letters in lower case
Folded(ext) == IF ext = ".PY" THEN ".py" ELSE IF ext = ".SH" THEN ".sh" ELSE ext

\* C30 amended: the extension is recognised whatever the case of its letters,
\* and extension_for_mode of the detected mode is the extension in lower case.
C30_ModeFollowsExtensionAnyCase ==
    ModeResolved
       => LET ext == Folded(SuffixOfPath(TargetOf(args)))
          IN  IF ext \in {".py", ".sh", ".zsh", ".fish"}
              THEN /\ args.mode = ModeOfExtension(ext)
                   /\ extension_for_mode(args.mode) = ext
                   /\ PromptsUse(ModeOfExtension(ext))
              ELSE /\ args.mode = ModeOrBash
                   /\ PromptsUse(ModeOrBash)

\* F.PY edited with -m zsh: the request carries the python prompt and fence tag
C30_Witness ==
    /\ ModeResolved
    /\ args.edit = <<"F", ".PY">>
    /\ ModeFlagGiven = <<"zsh">>
    /\ args.mode = <<"python">>
    /\ \E r \in sent :
          /\ r.inv = invocations
          /\ r.user[Len(TaskText) + 6] = "python"
          /\ r.system[1] = "reply-only-python"

\* the cleaned form of each reply of the model
AnswerFormOf(reply) ==
    IF reply = FencedReply THEN <<"a", NL, "b">> ELSE CleanedFormOf(reply)

\* C31: with the raw flag or the justanswer flag, whatever the other flags and
\* also with an edit or append target, once the model has replied main prints
\* the reply (as it came for raw, cleaned for justanswer, raw winning when both
\* are set), returns 0, and leaves the target, its .bak sibling, the output
\* directory, the prompt-file and every permission as they were.
C31_RawAndAnswerOnlyPrint ==
    ((args.raw \/ args.justanswer) /\ pc = "done" /\ raw_content # NoReply)
       => /\ exitCode = 0
          /\ raised = "none"
          /\ stdout = << IF args.raw THEN raw_content ELSE AnswerFormOf(raw_content) >>
          /\ produced = << IF args.raw THEN "raw" ELSE "answer" >>
          /\ fs = atEntry.fs
          /\ perm = <<>>
          /\ NewScripts = {}

\* -j with an edit target and a prompt-file, fenced reply
C31_Witness ==
    /\ pc = "done"
    /\ args.justanswer /\ ~args.raw
    /\ args.edit = TargetPath
    /\ args.prompt_file = PromptPath
    /\ raw_content = FencedReply
    /\ stdout = << <<"a", NL, "b">> >>
    /\ TargetPath \in DOMAIN fs
    /\ fs[TargetPath] = ContentA
    /\ BakOf(TargetPath) \notin DOMAIN fs
    /\ fs[PromptPath] = ContentOld

\* --raw and -j together with an append target: the reply as it came
C31_WitnessRawWins ==
    /\ pc = "done"
    /\ args.justanswer /\ args.raw
    /\ args.append = TargetPath
    /\ raw_content = FencedReply
    /\ stdout = <<FencedReply>>
    /\ exitCode = 0

\* C32: when the target did not exist before the invocation, a revert of the
\* edit or append leaves it absent again, also when a .bak sibling of an
\* earlier session was on disk at the start: the content of that stale backup
\* does not become the content of the target.
C32_RevertOfNewTargetRemovesIt ==
    (decision = "revert" /\ FileOpOf(args) # "none" /\ ~Exists(atEntry.fs, Target))
        => ~Exists(fs, Target)

(***************************************************************************)
(* Termination.  main is one sequential process: every step it has begun   *)
(* completes (each network call has a timeout, the user answers each       *)
(* input()), so a step that stays possible is taken.  The bound on         *)
(* invocations in RetryOffer is the user who at last declines the retry.   *)
(***************************************************************************)
\* the inputs with a loop in them: with or without a bootstrap command, every
\* startup timeout and retry budget, a script to save or a file to edit
InitLive ==
    /\ Init
    /\ \E inp \in SettingInputs :
          /\ EffectiveArgs(argv, sysArgv) = inp.list
          /\ cfg = inp.cfg
          /\ fs = inp.fs

\* every step of main but Respond
Others ==
    \/ ParseAndRead \/ FirstProbe \/ Bootstrap \/ Poll \/ BuildPrompts
    \/ QueryAttempt \/ QueryExhausted \/ SaveScript
    \/ Backup \/ Mutate \/ Review \/ Confirm \/ RetryOffer

\* Respond is possible exactly at pc = "respond" and every Respond step leaves
\* that position, so WF_vars(Respond) says that main is again and again
\* somewhere else; it is written in that form
RespondIsTaken == []<>(pc # "respond")

SpecLive == InitLive /\ [][Next]_vars /\ WF_vars(Others) /\ RespondIsTaken

\* the loops stay within their limits and a retry follows an explicit yes
LoopsBounded ==
    /\ elapsed <= cfg.startup_timeout
    /\ Len(tried) <= cfg.retries
    /\ attempt <= cfg.retries + 1
    /\ invocations <= 1 + retryYes
    /\ (pc = "entry" /\ invocations > 1) => choice \in {<<"y">>, <<"Y">>, <<"J">>}

\* C33: every invocation ends, given a user who at last declines the retry:
\* the poll loop makes no probe past the startup deadline, the query loop makes
\* at most `retries` attempts, and main is entered again only after an
\* explicit affirmative answer to the retry offer.
C33_EveryInvocationTerminates == []LoopsBounded /\ <>(pc = "done")

\* a bootstrap, a query that was retried, and a retry of main that the user
\* then declined
C33_Witness ==
    /\ pc = "done"
    /\ exitCode = 0
    /\ invocations > 1
    /\ decision = "revert"
    /\ spawned
    /\ sleeps > 0

====
